---- MODULE Spec2Model ----
(***************************************************************************)
(* Lifecycle of the Novatek NT35950 panel driver                           *)
(* (drivers/gpu/drm/panel/panel-novatek-nt35950.c): nt35950_prepare() and  *)
(* nt35950_unprepare() with the regulator, reset-GPIO and DSI operations   *)
(* they perform, one primitive operation per step, and nt35950_probe(),    *)
(* which constructs the driver instance.                                   *)
(*                                                                         *)
(* A behaviour starts with the device not bound (pc = "unbound"); a        *)
(* failed nt35950_probe() leaves it unbound and may be tried again, a      *)
(* successful one makes the panel available (pc = "idle").  Lifecycle      *)
(* calls are serialized by the caller: a new call starts only when         *)
(* pc = "idle".  The descriptor is that of the match table                 *)
(* (sharp_ls055d1sx04, dual DSI) or the same panel on a single link.       *)
(***************************************************************************)
EXTENDS Integers, Sequences, FiniteSets, TLC

(* ------------------------------ constants ------------------------------ *)

NT35950_VREG_MAX == 6

\* 0xF0: manufacturer command enable
MCS_CMD_MAUCCTR == 240
\* 0x58
MCS_PARAM_SCALER_FUNCTION == 88
\* 0x90
MCS_PARAM_DATA_COMPRESSION == 144
MCS_DATA_COMPRESSION_NONE == 0
\* 0xb4
MCS_PARAM_DISP_OUTPUT_CTRL == 180
\* BIT(0)
MCS_DISP_OUT_SRAM_EN == 1
\* BIT(4)
MCS_DISP_OUT_VIDEO_MODE == 16
\* 0xe3
MCS_PARAM_SPR_EN == 227
\* 0xef
MCS_PARAM_SPR_MODE == 239

\* DCS opcodes behind the mipi_dsi_dcs_* helpers the driver calls
\* 0x35, with MIPI_DSI_DCS_TEAR_MODE_VBLANK = 0
MIPI_DCS_SET_TEAR_ON == 53
\* 0x44
MIPI_DCS_SET_TEAR_SCANLINE == 68
\* 0x11
MIPI_DCS_EXIT_SLEEP_MODE == 17
\* 0x29
MIPI_DCS_SET_DISPLAY_ON == 41
\* 0x28
MIPI_DCS_SET_DISPLAY_OFF == 40
\* 0x10
MIPI_DCS_ENTER_SLEEP_MODE == 16

\* Largest use count a regulator reaches: nt35950_prepare() is not called
\* again once a rail holds this many enables.
MaxEnable == 2

\* Negative errno values a failing regulator_enable() or DSI write returns
\* (-EIO, -ETIMEDOUT).
Errnos == {-5, -110}

\* The descriptor of_device_get_match_data() hands to the driver.
sharp_ls055d1sx04 ==
    [num_lanes |-> 4, enable_sram |-> TRUE,
     is_video_mode |-> FALSE, is_dual_dsi |-> TRUE]

\* The descriptors a device can match: the one of the match table, and the
\* same panel with is_dual_dsi false (struct nt35950_panel_desc and the
\* "if (nt->desc->is_dual_dsi)" of nt35950_probe() provide for it).
Descs ==
    {sharp_ls055d1sx04, [sharp_ls055d1sx04 EXCEPT !.is_dual_dsi = FALSE]}

\* Errno values nt35950_probe() returns by name.
ENODEV == 19

EPROBE_DEFER == 517

\* nt->vregs[i].supply, as nt35950_sharp_init_vregs() names them.
VregSupply(i) ==
    CASE i = 0 -> "vddio"
      [] i = 1 -> "tvddio"
      [] i = 2 -> "tavdd"
      [] i = 3 -> "avdd"
      [] i = 4 -> "avee"
      [] i = 5 -> "dvdd"

Vregs == 0 .. (NT35950_VREG_MAX - 1)

\* The dsi[] slots of struct nt35950.
Dsis == {0, 1}

(* ------------------------------- state --------------------------------- *)

VARIABLES
    pc,          \* position of the lifecycle call in progress, or "idle"
    step,        \* index inside the current phase of the call
    call,        \* the call in progress or, when idle, the last call
    ret,         \* value the last call returned
    prepared,    \* nt->prepared
    vregs,       \* use count of each regulator nt->vregs[i].consumer
    reset_gpio,  \* level last driven on nt->reset_gpio
    mode_flags,  \* nt->dsi[i]->mode_flags, as the set of flags that are set
    log,         \* operations the call in progress (or the last call) did
    vregs0,      \* vregs at the start of the call
    lpm_pre_on,  \* MIPI_DSI_MODE_LPM of each dsi when nt35950_on() last began
    on_ok,       \* writes of nt35950_on() that succeeded in the power-up
                 \* sequence still in force
    desc,        \* nt->desc, the descriptor the device matches
    r_node,      \* the device tree has a remote node on port 1
    r_host,      \* the DSI host of that node is registered
    dsi,         \* nt->dsi[i]: "NULL" or "dev"
    lanes,       \* nt->dsi[i]->lanes
    format,      \* nt->dsi[i]->format
    attached,    \* dsi[i] is attached to its host
    dsi_r_registered,  \* a secondary device registered by probe exists
    panel_added, \* the panel is in the DRM panel list
    vregs_ret,   \* what nt35950_sharp_init_vregs() returned to probe
    deferred     \* a probe has failed because the host was not registered

\* What nt35950_probe() sets up and the lifecycle calls leave alone.
probe_vars == <<desc, r_node, r_host, dsi, lanes, format, attached,
                dsi_r_registered, panel_added, vregs_ret, deferred>>

vars == <<pc, step, call, ret, prepared, vregs, reset_gpio, mode_flags,
          log, vregs0, lpm_pre_on, on_ok, probe_vars>>

\* One operation on an external collaborator, as the log records it.
Op(name, dev, data, r) == [op |-> name, dev |-> dev, data |-> data, ret |-> r]

usleep_range(min, max) == Op("usleep_range", 0, <<min, max>>, 0)

msleep(ms) == Op("msleep", 0, <<ms>>, 0)

gpiod_set_value_cansleep(v) == Op("gpiod_set_value", 0, <<v>>, 0)

HasLpm(d) == "MIPI_DSI_MODE_LPM" \in mode_flags[d]

\* Flags nt35950_probe() gives every attached dsi.
ProbeModeFlags ==
    {"MIPI_DSI_MODE_EOT_PACKET", "MIPI_DSI_CLOCK_NON_CONTINUOUS",
     "MIPI_DSI_MODE_LPM"}
    \cup (IF desc.is_video_mode THEN {"MIPI_DSI_MODE_VIDEO"} ELSE {})

\* Before the first nt35950_probe(): nothing is set up; the reset line is
\* at whatever level it was left (GPIOD_ASIS).
Init ==
    /\ pc = "unbound"
    /\ step = 0
    /\ call = "none"
    /\ ret = 0
    /\ prepared = FALSE
    /\ vregs = [i \in Vregs |-> 0]
    /\ reset_gpio \in {0, 1}
    /\ mode_flags = [d \in Dsis |-> {}]
    /\ log = <<>>
    /\ vregs0 = [i \in Vregs |-> 0]
    /\ lpm_pre_on = [d \in Dsis |-> FALSE]
    /\ on_ok = 0
    /\ desc \in Descs
    /\ r_node \in BOOLEAN
    /\ r_host \in BOOLEAN
    /\ r_host => r_node
    /\ dsi = [d \in Dsis |-> "NULL"]
    /\ lanes = [d \in Dsis |-> 0]
    /\ format = [d \in Dsis |-> "unset"]
    /\ attached = [d \in Dsis |-> FALSE]
    /\ dsi_r_registered = FALSE
    /\ panel_added = FALSE
    /\ vregs_ret = 0
    /\ deferred = FALSE

(* --------------------------- command buffers --------------------------- *)

\* nt35950_set_cmd2_page(): 0xF0 0x55 0xaa 0x52 0x08 <page>
mauc_cmd2_page(page) == <<MCS_CMD_MAUCCTR, 85, 170, 82, 8, page>>

cmd_data_compression(comp_mode) == <<MCS_PARAM_DATA_COMPRESSION, comp_mode>>

cmd_scaler(scale_up) == <<MCS_PARAM_SCALER_FUNCTION, scale_up>>

\* nt35950_set_dispout(): the bits are distinct, so |= is an addition.
cmd_dispout ==
    <<MCS_PARAM_DISP_OUTPUT_CTRL,
      (IF desc.is_video_mode THEN MCS_DISP_OUT_VIDEO_MODE ELSE 0)
      + (IF desc.enable_sram THEN MCS_DISP_OUT_SRAM_EN ELSE 0)>>

\* 0xff 0xaa 0x55 0xa5 <last>: 0x80 enables the test command, 0x00 disables
cmd_test(last) == <<255, 170, 85, 165, last>>

\* 0x6f 0x01
cmd0_black_img == <<111, 1>>

\* 0xf3 0x10
cmd1_black_img == <<243, 16>>

\* 0xbd and the 15 bytes of the 60 Hz frame rate setting
cmd_frame_rate ==
    <<189, 0, 172, 12, 12, 0, 1, 86, 9, 9, 1, 1, 12, 12, 0, 217>>

\* Variant of nt35950_inject_black_image: the test command is not disabled
\* again.
nt35950_inject_black_image_no_disable ==
    <<cmd_test(128), cmd0_black_img, cmd1_black_img>>

\* The buffers nt35950_inject_black_image() writes, in order.
nt35950_inject_black_image ==
    <<cmd_test(128), cmd0_black_img, cmd1_black_img, cmd_test(0)>>

\* The buffers nt35950_on() writes, in order, all on nt->dsi[0].
nt35950_on_cmds ==
    <<mauc_cmd2_page(7),
      <<MCS_PARAM_SPR_EN, 1>>,
      <<MCS_PARAM_SPR_MODE, 1>>,
      mauc_cmd2_page(0),
      <<201, 1>>,
      cmd_data_compression(MCS_DATA_COMPRESSION_NONE),
      cmd_scaler(1),
      cmd_dispout,
      cmd_frame_rate,
      <<MIPI_DCS_SET_TEAR_ON, 0>>,
      <<MIPI_DCS_SET_TEAR_SCANLINE, 0, 0>>,
      mauc_cmd2_page(1),
      <<212, 136, 136>>>>
    \o nt35950_inject_black_image
    \o <<<<MIPI_DCS_EXIT_SLEEP_MODE>>, <<MIPI_DCS_SET_DISPLAY_ON>>>>

\* msleep(120) after exit-sleep and after display-on, nothing elsewhere.
OnDelayAfter(k) ==
    IF k > Len(nt35950_on_cmds) - 2 THEN <<msleep(120)>> ELSE <<>>

\* The buffers nt35950_off() writes, in order, on nt->dsi[0].
nt35950_off_cmds == <<<<MIPI_DCS_SET_DISPLAY_OFF>>, <<MIPI_DCS_ENTER_SLEEP_MODE>>>>

\* usleep_range(10000, 11000) after display-off, msleep(150) after
\* enter-sleep.
OffDelayAfter(k) ==
    IF k = 1 THEN <<usleep_range(10000, 11000)>> ELSE <<msleep(150)>>

\* mipi_dsi_dcs_write_buffer(): the number of bytes on success, a negative
\* errno on failure.
WriteResults(data) == {Len(data)} \cup Errnos

mipi_dsi_dcs_write_buffer(d, data, r) == Op("write", d, data, r)

\* Variant of CmdDsi: the commands alternate between the two links.
CmdDsi_Alternate(k) == k % 2

\* Index into nt->dsi[] of the device the k-th command of a script is
\* written to ("dsi = nt->dsi[0]" in nt35950_on(), nt->dsi[0] in the
\* helpers and in nt35950_off()).
CmdDsi(k) == 0

\* Variant of OnWriteAborts: the result of a write is not checked.
OnWriteAborts_Unchecked(r) == FALSE

\* "if (ret < 0) return ret;" after every write of nt35950_on()
OnWriteAborts(r) == r < 0

\* Variant of OffWriteAborts: nt35950_off() logs a failure and goes on.
OffWriteAborts_LogOnly(r) == FALSE

\* "if (ret < 0) { dev_err(); return ret; }" after each write of
\* nt35950_off()
OffWriteAborts(r) == r < 0

\* Variant of SetLpm: the flag is left as it is.
SetLpm_Keep(flags) == flags

\* mode_flags |= MIPI_DSI_MODE_LPM
SetLpm(flags) == flags \cup {"MIPI_DSI_MODE_LPM"}

\* Variant of ClearLpm: the flag is left as it is.
ClearLpm_Keep(flags) == flags

\* mode_flags &= ~MIPI_DSI_MODE_LPM
ClearLpm(flags) == flags \ {"MIPI_DSI_MODE_LPM"}

(* ------------------------------ regulators ----------------------------- *)

\* Variant of EnableOrder: the touch rails before the vsp/vsn pair.
EnableOrder_TouchFirst == <<0, 5, 1, 2, 3, 4>>

\* Index into nt->vregs[] of the k-th regulator_enable() of
\* nt35950_prepare().
EnableOrder == <<0, 5, 3, 4, 1, 2>>

\* usleep_range() that follows the k-th regulator_enable(), if any.
SettleDelay(k) ==
    CASE k = 1 -> <<usleep_range(2000, 5000)>>
      [] k = 2 -> <<usleep_range(15000, 18000)>>
      [] k = 4 -> <<usleep_range(12000, 13000)>>
      [] k = 6 -> <<usleep_range(15000, 16000)>>
      [] OTHER -> <<>>

\* regulator_enable(): 0 on success, a negative errno on failure.
EnableResults == {0} \cup Errnos

\* "if (ret) return ret;" after every regulator_enable()
EnableAborts(r) == r # 0

regulator_enable(v, i) == [v EXCEPT ![i] = @ + 1]

\* Variant of regulator_bulk_disable: a count one too small, so that the
\* last rail of the array is not disabled.
regulator_bulk_disable_short(v) ==
    [i \in Vregs |-> IF i = NT35950_VREG_MAX - 1 THEN v[i] ELSE v[i] - 1]

\* regulator_bulk_disable(ARRAY_SIZE(nt->vregs), nt->vregs): one disable
\* of every rail.
regulator_bulk_disable(v) == [i \in Vregs |-> v[i] - 1]

\* Variant of nt35950_reset_seq: the line is not driven to 1 again after
\* the low pulse.
nt35950_reset_seq_no_release ==
    <<<<1, usleep_range(12000, 13000)>>,
      <<0, usleep_range(300, 400)>>>>

\* Levels nt35950_reset() drives, each followed by its usleep_range().
nt35950_reset_seq ==
    <<<<1, usleep_range(12000, 13000)>>,
      <<0, usleep_range(300, 400)>>,
      <<1, usleep_range(12000, 13000)>>>>

(* --------------------------- nt35950_prepare --------------------------- *)

\* Variant of PrepareReturnsEarly: no check of nt->prepared.
PrepareReturnsEarly_Never == FALSE

\* "if (nt->prepared) return 0;"
PrepareReturnsEarly == prepared

\* Entry of nt35950_prepare().
nt35950_prepare ==
    /\ pc = "idle"
    /\ PrepareReturnsEarly \/ \A i \in Vregs : vregs[i] < MaxEnable
    /\ call' = "prepare"
    /\ log' = <<>>
    /\ vregs0' = vregs
    /\ ret' = 0
    /\ IF PrepareReturnsEarly
       THEN pc' = "idle" /\ step' = 0
       ELSE pc' = "power_up" /\ step' = 1
    /\ on_ok' = IF PrepareReturnsEarly THEN on_ok ELSE 0
    /\ UNCHANGED <<prepared, vregs, reset_gpio, mode_flags, lpm_pre_on,
                   probe_vars>>

\* nt35950_prepare() on regulators devm_regulator_bulk_get() did not
\* deliver: regulator_enable() dereferences an invalid consumer and the
\* call never returns (kernel oops).
nt35950_prepare_enable_invalid ==
    /\ pc = "power_up"
    /\ vregs_ret < 0
    /\ pc' = "oops_regulator"
    /\ UNCHANGED <<step, call, ret, prepared, vregs, reset_gpio, mode_flags,
                   log, vregs0, lpm_pre_on, on_ok, probe_vars>>

\* The step-th regulator_enable() of nt35950_prepare() and the delay after
\* it; a failure returns at once.
nt35950_prepare_enable ==
    /\ pc = "power_up"
    /\ vregs_ret >= 0
    /\ \E r \in EnableResults :
        LET i == EnableOrder[step]
            e == Op("regulator_enable", i, <<>>, r)
        IN  /\ vregs' = IF r = 0 THEN regulator_enable(vregs, i) ELSE vregs
            /\ IF EnableAborts(r)
               THEN /\ log' = Append(log, e)
                    /\ ret' = r
                    /\ pc' = "idle"
                    /\ step' = 0
               ELSE /\ log' = Append(log, e) \o SettleDelay(step)
                    /\ ret' = ret
                    /\ IF step < Len(EnableOrder)
                       THEN pc' = "power_up" /\ step' = step + 1
                       ELSE pc' = "reset" /\ step' = 1
    /\ UNCHANGED <<call, prepared, reset_gpio, mode_flags, vregs0, lpm_pre_on,
                   on_ok, probe_vars>>

\* One level of nt35950_reset() and the delay after it.
nt35950_reset ==
    /\ pc = "reset"
    /\ reset_gpio' = nt35950_reset_seq[step][1]
    /\ log' = log \o <<gpiod_set_value_cansleep(nt35950_reset_seq[step][1]),
                       nt35950_reset_seq[step][2]>>
    /\ IF step < Len(nt35950_reset_seq)
       THEN pc' = "reset" /\ step' = step + 1
       ELSE pc' = "on" /\ step' = 0
    /\ UNCHANGED <<call, ret, prepared, vregs, mode_flags, vregs0, lpm_pre_on,
                   on_ok, probe_vars>>

\* nt35950_on(): set LPM on both dsi before the first write.
nt35950_on_begin ==
    /\ pc = "on"
    /\ step = 0
    /\ dsi[1] # "NULL"
    /\ lpm_pre_on' = [d \in Dsis |-> HasLpm(d)]
    /\ mode_flags' = [d \in Dsis |-> SetLpm(mode_flags[d])]
    /\ step' = 1
    /\ UNCHANGED <<pc, call, ret, prepared, vregs, reset_gpio, log, vregs0,
                   on_ok, probe_vars>>

\* nt35950_on() on a single link: LPM is set on dsi[0], then
\* "nt->dsi[1]->mode_flags |= MIPI_DSI_MODE_LPM" dereferences the NULL
\* nt->dsi[1] and the call never returns (kernel oops).
nt35950_on_begin_null_dsi1 ==
    /\ pc = "on"
    /\ step = 0
    /\ dsi[1] = "NULL"
    /\ mode_flags' = [mode_flags EXCEPT ![0] = SetLpm(@)]
    /\ pc' = "oops_dsi1"
    /\ UNCHANGED <<step, call, ret, prepared, vregs, reset_gpio, log, vregs0,
                   lpm_pre_on, on_ok, probe_vars>>

\* The step-th write of nt35950_on().  When it fails nt35950_on() returns
\* its error and nt35950_prepare() bulk-disables the regulators and returns
\* the same error.
nt35950_on_write ==
    /\ pc = "on"
    /\ step \in 1 .. Len(nt35950_on_cmds)
    /\ \E r \in WriteResults(nt35950_on_cmds[step]) :
        LET w == mipi_dsi_dcs_write_buffer(CmdDsi(step), nt35950_on_cmds[step], r)
        IN  IF OnWriteAborts(r)
            THEN /\ log' = log \o <<w, Op("regulator_bulk_disable", 0, <<>>, 0)>>
                 /\ vregs' = regulator_bulk_disable(vregs)
                 /\ ret' = r
                 /\ pc' = "idle"
                 /\ step' = 0
                 /\ on_ok' = 0
            ELSE /\ log' = Append(log, w) \o OnDelayAfter(step)
                 /\ step' = step + 1
                 /\ on_ok' = IF r >= 0 THEN on_ok + 1 ELSE on_ok
                 /\ UNCHANGED <<vregs, ret, pc>>
    /\ UNCHANGED <<call, prepared, reset_gpio, mode_flags, vregs0, lpm_pre_on,
                   probe_vars>>

\* End of nt35950_on(): clear LPM on both dsi, return 0; nt35950_prepare()
\* sets nt->prepared and returns 0.
nt35950_on_end ==
    /\ pc = "on"
    /\ step = Len(nt35950_on_cmds) + 1
    /\ mode_flags' = [d \in Dsis |-> ClearLpm(mode_flags[d])]
    /\ prepared' = TRUE
    /\ ret' = 0
    /\ pc' = "idle"
    /\ step' = 0
    /\ UNCHANGED <<call, vregs, reset_gpio, log, vregs0, lpm_pre_on, on_ok,
                   probe_vars>>

(* -------------------------- nt35950_unprepare -------------------------- *)

\* Variant of UnprepareReturnsEarly: no check of nt->prepared.
UnprepareReturnsEarly_Never == FALSE

\* "if (!nt->prepared) return 0;"
UnprepareReturnsEarly == ~prepared

\* Variant of UnprepareAfterOff: nt35950_unprepare() returns when
\* nt35950_off() failed.
UnprepareAfterOff_Return(r) == IF r < 0 THEN "idle" ELSE "power_down"

\* "ret = nt35950_off(nt); if (ret < 0) dev_err(...);": whatever
\* nt35950_off() returned, nt35950_unprepare() goes on with the teardown.
UnprepareAfterOff(r) == "power_down"

\* Entry of nt35950_unprepare().
nt35950_unprepare ==
    /\ pc = "idle"
    /\ call' = "unprepare"
    /\ log' = <<>>
    /\ vregs0' = vregs
    /\ ret' = 0
    /\ IF UnprepareReturnsEarly
       THEN pc' = "idle" /\ step' = 0
       ELSE pc' = "off" /\ step' = 1
    /\ UNCHANGED <<prepared, vregs, reset_gpio, mode_flags, lpm_pre_on,
                   on_ok, probe_vars>>

\* The step-th write of nt35950_off().  When it fails nt35950_off()
\* returns at once and nt35950_unprepare() goes on with the teardown.
nt35950_off_write ==
    /\ pc = "off"
    /\ step \in 1 .. Len(nt35950_off_cmds)
    /\ \E r \in WriteResults(nt35950_off_cmds[step]) :
        LET w == mipi_dsi_dcs_write_buffer(CmdDsi(step), nt35950_off_cmds[step], r)
        IN  IF OffWriteAborts(r)
            THEN /\ log' = Append(log, w)
                 /\ pc' = UnprepareAfterOff(r)
                 /\ step' = 0
            ELSE /\ log' = Append(log, w) \o OffDelayAfter(step)
                 /\ pc' = "off"
                 /\ step' = step + 1
    /\ UNCHANGED <<call, ret, prepared, vregs, reset_gpio, mode_flags,
                   vregs0, lpm_pre_on, on_ok, probe_vars>>

\* End of nt35950_off(): set LPM on both dsi, return 0.
nt35950_off_end ==
    /\ pc = "off"
    /\ step = Len(nt35950_off_cmds) + 1
    /\ mode_flags' = [d \in Dsis |-> SetLpm(mode_flags[d])]
    /\ pc' = UnprepareAfterOff(0)
    /\ step' = 0
    /\ UNCHANGED <<call, ret, prepared, vregs, reset_gpio, log, vregs0,
                   lpm_pre_on, on_ok, probe_vars>>

\* Rest of nt35950_unprepare(), whatever nt35950_off() returned: reset
\* low, bulk disable, prepared = false, return 0.
nt35950_unprepare_power_down ==
    /\ pc = "power_down"
    /\ reset_gpio' = 0
    /\ vregs' = regulator_bulk_disable(vregs)
    /\ log' = log \o <<gpiod_set_value_cansleep(0),
                       Op("regulator_bulk_disable", 0, <<>>, 0)>>
    /\ prepared' = FALSE
    /\ ret' = 0
    /\ pc' = "idle"
    /\ step' = 0
    /\ on_ok' = 0
    /\ UNCHANGED <<call, mode_flags, vregs0, lpm_pre_on, probe_vars>>

(* ---------------------------- specification ---------------------------- *)

(* -------------------------------- probe -------------------------------- *)

\* What devm_regulator_bulk_get() can return.
BulkGetResults == {0, -EPROBE_DEFER}

\* regulator_is_supported_voltage() of each rail: all rails support their
\* range, or one does not.
SupportedCases ==
    {sup \in [Vregs -> {0, 1}] : Cardinality({i \in Vregs : sup[i] = 0}) <= 1}

\* nt35950_sharp_init_vregs(): the error of the bulk get, else 0 at the
\* first rail that does not support its range ("if (!ret) return ret"),
\* else what the last check returned.
nt35950_sharp_init_vregs(get, sup) ==
    IF get < 0 THEN get
    ELSE IF \E i \in Vregs : sup[i] = 0 THEN 0
    ELSE sup[NT35950_VREG_MAX - 1]

GpioResults == {0, -EPROBE_DEFER}

BacklightResults == {0, -EPROBE_DEFER}

AttachResults == {0} \cup Errnos

\* What probe returns when the secondary node has no registered host.
HostMissingRet_NotPresent == -ENODEV

HostMissingRet == -EPROBE_DEFER

\* What the attach loop of probe writes into dsi[i].
ProbeConfig_FirstOnly(i) ==
    IF i = 0
    THEN [lanes |-> desc.num_lanes, format |-> "MIPI_DSI_FMT_RGB888",
          mode_flags |-> ProbeModeFlags]
    ELSE [lanes |-> 0, format |-> "unset", mode_flags |-> {}]

ProbeConfig(i) ==
    [lanes |-> desc.num_lanes, format |-> "MIPI_DSI_FMT_RGB888",
     mode_flags |-> ProbeModeFlags]

\* A struct mipi_dsi_device nobody has configured yet.
FreshDsi == [lanes |-> 0, format |-> "unset", mode_flags |-> {}]

ProbeOutcome(r, l, registered, panel, configured, att) ==
    [ret |-> r, log |-> l, registered |-> registered, panel |-> panel,
     configured |-> configured, attached |-> att]

\* The body of nt35950_probe() on the results of the calls it makes: what it
\* returns, the calls it made, and what it had registered, added,
\* configured and attached when it returned.
nt35950_probe_run(gpio, reg, bl, att) ==
    LET dual   == desc.is_dual_dsi
        n      == IF dual THEN 2 ELSE 1
        l_gpio == <<Op("devm_gpiod_get", 0, <<>>, gpio)>>
        l_node == Append(l_gpio, Op("of_graph_get_remote_node", 1, <<>>,
                                    IF r_node THEN 1 ELSE 0))
        l_host == Append(l_node, Op("of_find_mipi_dsi_host_by_node", 1, <<>>,
                                    IF r_host THEN 1 ELSE 0))
        l_reg  == Append(l_host, Op("mipi_dsi_device_register_full", 1, <<>>,
                                    IF reg THEN 1 ELSE 0))
        l_bl   == Append(IF dual THEN l_reg ELSE l_gpio,
                         Op("drm_panel_of_backlight", 0, <<>>, bl))
        l_add  == Append(l_bl, Op("drm_panel_add", 0, <<>>, 0))
        l_att0 == Append(l_add, Op("mipi_dsi_attach", 0, <<>>, att[0]))
        l_att1 == Append(l_att0, Op("mipi_dsi_attach", 1, <<>>, att[1]))
        l_end  == Append(IF dual THEN l_att1 ELSE l_att0,
                         gpiod_set_value_cansleep(0))
    IN  IF gpio < 0
        THEN ProbeOutcome(gpio, l_gpio, FALSE, FALSE, {}, {})
        ELSE IF dual /\ ~r_node
        THEN ProbeOutcome(-ENODEV, l_node, FALSE, FALSE, {}, {})
        ELSE IF dual /\ ~r_host
        THEN ProbeOutcome(HostMissingRet, l_host, FALSE, FALSE, {}, {})
        ELSE IF dual /\ ~reg
        THEN ProbeOutcome(-ENODEV, l_reg, FALSE, FALSE, {}, {})
        ELSE IF bl # 0
        THEN ProbeOutcome(bl, l_bl, dual, FALSE, {}, {})
        ELSE IF att[0] < 0
        THEN ProbeOutcome(att[0], l_att0, dual, TRUE, {0}, {})
        ELSE IF dual /\ att[1] < 0
        THEN ProbeOutcome(att[1], l_att1, dual, TRUE, {0, 1}, {0})
        ELSE ProbeOutcome(0, l_end, dual, TRUE, 0 .. (n - 1), 0 .. (n - 1))

\* The fields of dsi[d] after a probe with outcome res: configured by the
\* attach loop, fresh if only registered, else as they were.
DsiAfterProbe(res, d) ==
    IF d \in res.configured THEN ProbeConfig(d)
    ELSE IF d = 1 /\ res.registered THEN FreshDsi
    ELSE [lanes |-> lanes[d], format |-> format[d],
          mode_flags |-> mode_flags[d]]

\* nt35950_probe(): the result of nt35950_sharp_init_vregs() is only
\* logged; every error return is a plain return.
nt35950_probe ==
    /\ pc = "unbound"
    /\ \E get \in BulkGetResults, sup \in SupportedCases,
          gpio \in GpioResults, reg \in BOOLEAN, bl \in BacklightResults,
          att \in [Dsis -> AttachResults] :
         LET res == nt35950_probe_run(gpio, reg, bl, att)
         IN  /\ ret' = res.ret
             /\ log' = res.log
             /\ dsi_r_registered' = (dsi_r_registered \/ res.registered)
             /\ panel_added' = (panel_added \/ res.panel)
             /\ attached' = [d \in Dsis |->
                               attached[d] \/ d \in res.attached]
             /\ lanes' = [d \in Dsis |-> DsiAfterProbe(res, d).lanes]
             /\ format' = [d \in Dsis |-> DsiAfterProbe(res, d).format]
             /\ mode_flags' =
                    [d \in Dsis |-> DsiAfterProbe(res, d).mode_flags]
             /\ deferred' =
                    (deferred
                     \/ (res.ret < 0 /\ res.log[Len(res.log)].op
                                          = "of_find_mipi_dsi_host_by_node"))
             /\ IF res.ret = 0
                THEN /\ pc' = "idle"
                     /\ dsi' = [d \in Dsis |->
                                  IF d \in res.attached THEN "dev" ELSE "NULL"]
                     /\ vregs_ret' = nt35950_sharp_init_vregs(get, sup)
                     /\ reset_gpio' = 0
                ELSE /\ pc' = "unbound"
                     /\ dsi' = [d \in Dsis |-> "NULL"]
                     /\ vregs_ret' = 0
                     /\ UNCHANGED reset_gpio
    /\ call' = "probe"
    /\ step' = 0
    /\ prepared' = FALSE
    /\ UNCHANGED <<vregs, vregs0, lpm_pre_on, on_ok, desc, r_node, r_host>>

\* The DSI host of the secondary node registers while the panel is not
\* bound.
mipi_dsi_host_register ==
    /\ pc = "unbound"
    /\ r_node
    /\ ~r_host
    /\ r_host' = TRUE
    /\ call' = "mipi_dsi_host_register"
    /\ log' = <<>>
    /\ ret' = 0
    /\ UNCHANGED <<pc, step, prepared, vregs, reset_gpio, mode_flags, vregs0,
                   lpm_pre_on, on_ok, desc, r_node, dsi, lanes, format,
                   attached, dsi_r_registered, panel_added, vregs_ret,
                   deferred>>

Next ==
    \/ nt35950_probe
    \/ mipi_dsi_host_register
    \/ nt35950_prepare
    \/ nt35950_prepare_enable_invalid
    \/ nt35950_prepare_enable
    \/ nt35950_reset
    \/ nt35950_on_begin_null_dsi1
    \/ nt35950_on_begin
    \/ nt35950_on_write
    \/ nt35950_on_end
    \/ nt35950_unprepare
    \/ nt35950_off_write
    \/ nt35950_off_end
    \/ nt35950_unprepare_power_down

Spec == Init /\ [][Next]_vars

(* ------------------------------ properties ----------------------------- *)

IsWrite(e) == e.op = "write"

IsEnable(e) == e.op = "regulator_enable"

\* The writes, and the regulator_enable() calls, of a log, in order.
Writes(l) == SelectSeq(l, IsWrite)

Enables(l) == SelectSeq(l, IsEnable)

\* Positions of the log that hold a failed write.
FailedWrites == {k \in 1 .. Len(log) : IsWrite(log[k]) /\ log[k].ret < 0}

\* The call named c has returned, and did more than return at its entry.
Returned(c) == pc = "idle" /\ call = c

RanToReturn(c) == Returned(c) /\ log # <<>>

\* C1, as stated: whenever prepare() returns an error, whichever rail
\* enable or on-script write failed, every rail that this prepare() enabled
\* has been disabled again (the use counts are back to what they were when
\* the call started).
C1_ErrorLeavesNoRailEnabled ==
    (Returned("prepare") /\ ret # 0) => vregs = vregs0

\* C2, as stated: when the off script finishes, the enter-sleep write has
\* been issued even if display-off failed, and LPM is set on both dsi
\* whether or not a write failed.
C2_OffContinuesPastFailures ==
    (call = "unprepare" /\ pc = "power_down") =>
        /\ \E k \in 1 .. Len(log) :
              IsWrite(log[k]) /\ log[k].data = <<MIPI_DCS_ENTER_SLEEP_MODE>>
        /\ \A d \in Dsis : HasLpm(d)

\* C2, amended: the off script stops at its first failing write.  When
\* display-off fails, enter-sleep is not issued; when the off script
\* finishes, LPM is set on both dsi if both writes succeeded and cleared on
\* both if one failed.
C2_OffStopsAtFirstFailure ==
    (call = "unprepare" /\ pc = "power_down") =>
        LET w == Writes(log)
        IN  /\ Len(w) \in {1, 2}
            /\ w[1].data = <<MIPI_DCS_SET_DISPLAY_OFF>>
            /\ w[1].ret < 0 => Len(w) = 1
            /\ w[1].ret >= 0 =>
                  Len(w) = 2 /\ w[2].data = <<MIPI_DCS_ENTER_SLEEP_MODE>>
            /\ \A d \in Dsis : HasLpm(d) <=> FailedWrites = {}

\* The off script has finished after a failed display-off.
C2_Witness ==
    /\ call = "unprepare"
    /\ pc = "power_down"
    /\ Len(log) = 1
    /\ log[1].data = <<MIPI_DCS_SET_DISPLAY_OFF>>
    /\ log[1].ret < 0
    /\ \A d \in Dsis : ~HasLpm(d)

\* C3: prepare() on a prepared panel returns 0 at once: no write, no
\* regulator_enable(), no change of the reset line, of nt->prepared or of
\* either dsi's mode flags.
C3_PrepareWhenPreparedIsNoop ==
    [][(pc = "idle" /\ prepared /\ call' = "prepare") =>
            /\ pc' = "idle"
            /\ ret' = 0
            /\ log' = <<>>
            /\ UNCHANGED <<vregs, reset_gpio, prepared, mode_flags>>]_vars

\* A prepare() has just returned from a prepared panel without doing
\* anything.
C3_Witness ==
    Returned("prepare") /\ prepared /\ log = <<>> /\ ret = 0

\* C4: unprepare() on a panel that is not prepared (after construction,
\* after an unprepare(), after a failed prepare()) returns 0 at once: no
\* write, no change of the regulators, of the reset line or of
\* nt->prepared.
C4_UnprepareWhenUnpreparedIsNoop ==
    [][(pc = "idle" /\ ~prepared /\ call' = "unprepare") =>
            /\ pc' = "idle"
            /\ ret' = 0
            /\ log' = <<>>
            /\ UNCHANGED <<vregs, reset_gpio, prepared>>]_vars

\* An unprepare() has just returned without doing anything, on a panel
\* whose last attempt to prepare failed in the on script (the reset line is
\* still at 1, which only a failed on script leaves on an unprepared
\* panel).
C4_Witness ==
    /\ Returned("unprepare")
    /\ ~prepared
    /\ log = <<>>
    /\ ret = 0
    /\ reset_gpio = 1

\* C5: when a write of the on script fails, prepare() bulk-disables the
\* regulators right after it (undoing its six enables), leaves
\* nt->prepared false and returns the error of that write.
C5_OnFailureRollsBack ==
    \A k \in FailedWrites :
        Returned("prepare") =>
            /\ k = Len(log) - 1
            /\ log[Len(log)].op = "regulator_bulk_disable"
            /\ Len(Enables(log)) = NT35950_VREG_MAX
            /\ vregs = vregs0
            /\ ~prepared
            /\ ret = log[k].ret

\* prepare() has returned after the select-page-1 write failed.
C5_Witness ==
    /\ Returned("prepare")
    /\ \E k \in FailedWrites : log[k].data = mauc_cmd2_page(1)
    /\ ret < 0

\* C6: unprepare() on a prepared panel returns 0 with the reset line at 0,
\* the regulators bulk-disabled (one disable of every rail) and
\* nt->prepared false, whether the off script succeeded or display-off or
\* enter-sleep failed.
C6_UnprepareAlwaysTearsDown ==
    RanToReturn("unprepare") =>
        /\ ret = 0
        /\ reset_gpio = 0
        /\ ~prepared
        /\ \A i \in Vregs : vregs[i] = vregs0[i] - 1
        /\ Len(log) >= 3
        /\ log[Len(log) - 1] = gpiod_set_value_cansleep(0)
        /\ log[Len(log)].op = "regulator_bulk_disable"

\* unprepare() has returned after the enter-sleep write failed.
C6_Witness ==
    /\ RanToReturn("unprepare")
    /\ \E k \in FailedWrites : log[k].data = <<MIPI_DCS_ENTER_SLEEP_MODE>>
    /\ ~prepared

\* The last off script had no failing write.
OffSucceeded == FailedWrites = {}

C8_Order == <<"vddio", "dvdd", "avdd", "avee", "tvddio", "tavdd">>

\* The settle delay C8 expects after the enable of a supply: one after
\* vddio, dvdd, avee (end of avdd+avee) and tavdd (end of tvddio+tavdd).
C8_DelayAfter(supply) ==
    CASE supply = "vddio" -> <<2000, 5000>>
      [] supply = "dvdd" -> <<15000, 18000>>
      [] supply = "avee" -> <<12000, 13000>>
      [] supply = "tavdd" -> <<15000, 16000>>
      [] OTHER -> <<>>

\* C8: prepare() enables vddio, dvdd, avdd, avee, tvddio, tavdd in that
\* order, with a delay after each of the groups vddio | dvdd | avdd+avee |
\* tvddio+tavdd and none inside a group; a failed enable is the last
\* operation of the call: no later enable, no reset pulse, no write.
C8_RailOrder ==
    call = "prepare" =>
        /\ Len(Enables(log)) <= Len(C8_Order)
        /\ \A k \in 1 .. Len(Enables(log)) :
              VregSupply(Enables(log)[k].dev) = C8_Order[k]
        /\ \A k \in 1 .. Len(log) :
              IsEnable(log[k]) =>
                  IF log[k].ret # 0
                  THEN k = Len(log) /\ pc = "idle" /\ ret = log[k].ret
                  ELSE LET delay == C8_DelayAfter(VregSupply(log[k].dev))
                       IN  IF delay = <<>>
                           THEN k < Len(log) => IsEnable(log[k + 1])
                           ELSE /\ k < Len(log)
                                /\ log[k + 1] = usleep_range(delay[1], delay[2])
        /\ \A k \in 1 .. Len(log) :
              log[k].op \in {"write", "gpiod_set_value"} =>
                  /\ Len(SelectSeq(SubSeq(log, 1, k), IsEnable)) = Len(C8_Order)
                  /\ \A j \in 1 .. k : log[j].ret >= 0 \/ IsWrite(log[j])

\* prepare() has returned because enabling avee failed, with vddio, dvdd
\* and avdd enabled before it.
C8_Witness ==
    /\ Returned("prepare")
    /\ Len(log) = 6
    /\ IsEnable(log[6])
    /\ VregSupply(log[6].dev) = "avee"
    /\ log[6].ret < 0
    /\ ret = log[6].ret

\* A prepare() that did its work has returned 0.
PrepareSucceeded == RanToReturn("prepare") /\ ret = 0 /\ prepared

\* C9, as stated: a successful prepare() issues exactly 13 writes.
C9_ThirteenWrites ==
    PrepareSucceeded => Len(Writes(log)) = 13

\* C9, amended: a successful prepare() issues exactly 19 writes for the on
\* script, all of them after the last level of the reset pulse, none of
\* them failing, and LPM is cleared after them.
C9_NineteenWrites ==
    PrepareSucceeded =>
        /\ Len(Writes(log)) = 19
        /\ \A k \in 1 .. Len(log) :
              IsWrite(log[k]) =>
                  /\ log[k].ret >= 0
                  /\ \A j \in k .. Len(log) : log[j].op # "gpiod_set_value"
        /\ \A d \in Dsis : ~HasLpm(d)

\* A prepare() has gone through the whole on script and returned 0.
C9_Witness ==
    /\ PrepareSucceeded
    /\ Writes(log)[Len(Writes(log))].data = <<MIPI_DCS_SET_DISPLAY_ON>>

\* The writes of the on script in the order C10 gives.
C10_Order ==
    <<mauc_cmd2_page(7),                  \* select page 7
      <<MCS_PARAM_SPR_EN, 1>>,            \* SPR enable
      <<MCS_PARAM_SPR_MODE, 1>>,          \* SPR mode
      mauc_cmd2_page(0),                  \* select page 0
      <<201, 1>>,                         \* opaque 0xc9 byte
      <<MCS_PARAM_DATA_COMPRESSION, 0>>,  \* compression none
      <<MCS_PARAM_SCALER_FUNCTION, 1>>,   \* scaler enable
      <<MCS_PARAM_DISP_OUTPUT_CTRL, 1>>,  \* display-output control (SRAM)
      cmd_frame_rate,                     \* frame-rate table
      <<MIPI_DCS_SET_TEAR_ON, 0>>,        \* tear on
      <<MIPI_DCS_SET_TEAR_SCANLINE, 0, 0>>, \* tear scanline
      mauc_cmd2_page(1),                  \* select page 1
      <<212, 136, 136>>,                  \* 0xd4 register pair
      <<255, 170, 85, 165, 128>>,         \* test-mode enable
      <<111, 1>>,                         \* frame command
      <<243, 16>>,                        \* frame command
      <<255, 170, 85, 165, 0>>,           \* test-mode disable
      <<MIPI_DCS_EXIT_SLEEP_MODE>>,       \* exit sleep
      <<MIPI_DCS_SET_DISPLAY_ON>>>>       \* display on

\* C10: the writes of the on script come in the order of C10_Order; a
\* failing write is the last write of the call, LPM is still set on both
\* dsi when prepare() returns, and prepare() returns the error of that
\* write.
C10_OnOrderFailFast ==
    call = "prepare" =>
        LET w == Writes(log)
        IN  /\ Len(w) <= Len(C10_Order)
            /\ \A k \in 1 .. Len(w) : w[k].data = C10_Order[k]
            /\ \A k \in 1 .. Len(w) :
                  w[k].ret < 0 =>
                      /\ k = Len(w)
                      /\ pc = "idle"
                      /\ ret = w[k].ret
                      /\ ~prepared
                      /\ \A d \in Dsis : HasLpm(d)

\* prepare() has returned because the test-mode disable of the black-frame
\* injection failed, the 17th write.
C10_Witness ==
    /\ Returned("prepare")
    /\ Len(Writes(log)) = 17
    /\ Writes(log)[17].data = cmd_test(0)
    /\ Writes(log)[17].ret < 0
    /\ ret = Writes(log)[17].ret

IsGpio(e) == e.op = "gpiod_set_value"

\* The levels a log drives on the reset line, in order.
GpioLevels(l) ==
    LET g == SelectSeq(l, IsGpio) IN [k \in 1 .. Len(g) |-> g[k].data[1]]

\* C11: in prepare() the reset line is driven 1, 0, 1, only after the six
\* regulators have been enabled and before the first write, and it is at 1
\* while the on script runs and when a successful prepare() returns.
C11_ResetPulse ==
    call = "prepare" =>
        /\ \E n \in 0 .. 3 : GpioLevels(log) = SubSeq(<<1, 0, 1>>, 1, n)
        /\ \A k \in 1 .. Len(log) :
              /\ IsGpio(log[k]) =>
                    LET before == SubSeq(log, 1, k)
                    IN  /\ Len(Enables(before)) = NT35950_VREG_MAX
                        /\ \A j \in 1 .. Len(Enables(before)) :
                              Enables(before)[j].ret = 0
                        /\ Writes(before) = <<>>
              /\ IsWrite(log[k]) =>
                    GpioLevels(SubSeq(log, 1, k)) = <<1, 0, 1>>
        /\ pc = "on" => reset_gpio = 1
        /\ PrepareSucceeded => reset_gpio = 1

\* The on script is about to issue its first write, after the whole pulse.
C11_Witness ==
    /\ call = "prepare"
    /\ pc = "on"
    /\ step = 1
    /\ GpioLevels(log) = <<1, 0, 1>>
    /\ reset_gpio = 1

\* C12: every write of prepare() and unprepare() goes to dsi[0]; dsi[1]
\* receives none.
C12_WritesOnlyToDsi0 ==
    \A k \in 1 .. Len(log) : IsWrite(log[k]) => log[k].dev = 0

\* The off script has issued both its writes.
C12_Witness ==
    /\ call = "unprepare"
    /\ pc = "power_down"
    /\ Len(Writes(log)) = 2
    /\ \A k \in 1 .. 2 : Writes(log)[k].dev = 0

\* A write of the on script, or of the off script, is the next operation.
OnWriteNext == pc = "on" /\ step \in 1 .. Len(nt35950_on_cmds)

OffWriteNext == pc = "off" /\ step \in 1 .. Len(nt35950_off_cmds)

\* C13, as stated (first half): LPM is set on both dsi at the moment of
\* every write of the on script and of the off script.
C13_LpmSetAtEveryWrite ==
    (OnWriteNext \/ OffWriteNext) => \A d \in Dsis : HasLpm(d)

\* This step appends a write to the log.
WriteIssued ==
    /\ Len(log') > Len(log)
    /\ IsWrite(log'[Len(log) + 1])

\* C13, amended: in every step of a lifecycle call (probe is what gives
\* the flag its first value), LPM is set on both dsi at the moment of every
\* write of the on script and cleared on both at the moment of every write
\* of the off script; it is cleared only by a step that ends an on script
\* whose 19 writes all succeeded, and set again only at the start of an on
\* script or after both writes of the off script succeeded.
C13_LpmAroundWrites ==
    [][pc # "unbound" =>
       /\ WriteIssued =>
            /\ call = "prepare" => \A d \in Dsis : HasLpm(d)
            /\ call = "unprepare" => \A d \in Dsis : ~HasLpm(d)
       /\ \A d \in Dsis :
            /\ (HasLpm(d) /\ ~HasLpm(d)') =>
                  /\ call = "prepare"
                  /\ Len(Writes(log)) = 19
                  /\ FailedWrites = {}
                  /\ log' = log
                  /\ prepared'
            /\ (~HasLpm(d) /\ HasLpm(d)') =>
                  \/ call = "prepare" /\ Writes(log) = <<>>
                  \/ /\ call = "unprepare"
                     /\ Len(Writes(log)) = 2
                     /\ FailedWrites = {}]_vars

\* The off script has issued display-off and is about to issue enter-sleep,
\* with LPM cleared on both dsi.
C13_Witness ==
    /\ OffWriteNext
    /\ step = 2
    /\ Len(Writes(log)) = 1
    /\ \A d \in Dsis : ~HasLpm(d)

\* nt35950_sharp_init_vregs() obtained the regulators and found the range
\* of every rail supported.
VregsValidated == vregs_ret > 0

\* C14, as stated: no rail is enabled unless the voltage-range validation
\* of all six rails succeeded at construction.
C14_RailsNeedValidation ==
    (\E i \in Vregs : vregs[i] > 0) => VregsValidated

GpioObtained(l) ==
    \E k \in 1 .. Len(l) : l[k].op = "devm_gpiod_get" /\ l[k].ret = 0

\* The probe whose calls are in l was told by the backlight lookup to retry.
BacklightDeferred(l) ==
    \E k \in 1 .. Len(l) :
        l[k].op = "drm_panel_of_backlight" /\ l[k].ret = -EPROBE_DEFER

\* Every call in l delivered what probe needs to go on.
AllProbeCallsSucceeded(l) ==
    \A k \in 1 .. Len(l) :
        IF l[k].op \in {"of_graph_get_remote_node",
                        "of_find_mipi_dsi_host_by_node",
                        "mipi_dsi_device_register_full"}
        THEN l[k].ret = 1
        ELSE l[k].ret = 0

Resolved == {d \in Dsis : dsi[d] # "NULL"}

\* C16: once probe has succeeded all resolved dsi have the same lanes and
\* format, the same mode flags when probe returns, and the same LPM flag
\* whenever no lifecycle call is in progress.
C16_LinksConfiguredAlike ==
    \A d1 \in Resolved, d2 \in Resolved :
        /\ lanes[d1] = lanes[d2]
        /\ format[d1] = format[d2]
        /\ lanes[d1] = desc.num_lanes
        /\ Returned("probe") => mode_flags[d1] = mode_flags[d2]
        /\ pc = "idle" => (HasLpm(d1) <=> HasLpm(d2))

\* A dual-link panel is idle after an unprepare() that followed a failed
\* and a successful prepare(): the LPM flag has been set and cleared by the
\* scripts and is set on both dsi.
C16_Witness ==
    /\ RanToReturn("unprepare")
    /\ OffSucceeded
    /\ Cardinality(Resolved) = 2
    /\ \A d \in Dsis : HasLpm(d)
    /\ \E i \in Vregs : vregs[i] > 0

\* C17: whenever prepared is true and no lifecycle call is in progress,
\* all six rails are enabled, the reset line is at 1, LPM is cleared on
\* both dsi, and all 19 writes of the on script have succeeded since the
\* power-up sequence began.
C17_PreparedMeansUp ==
    (pc = "idle" /\ prepared) =>
        /\ \A i \in Vregs : vregs[i] >= 1
        /\ reset_gpio = 1
        /\ \A d \in Dsis : ~HasLpm(d)
        /\ on_ok = Len(nt35950_on_cmds)

\* The panel is prepared and idle after an earlier prepare() had failed and
\* left a rail enabled.
C17_Witness ==
    /\ pc = "idle"
    /\ prepared
    /\ \E i \in Vregs : vregs[i] = 2

\* C18, as stated: whenever prepare() is about to enable its first rail the
\* reset line is at 0.
C18_PowerUpStartsWithResetLow ==
    (call = "prepare" /\ pc = "power_up" /\ step = 1) => reset_gpio = 0

C20_FailedProbeLeavesNothing ==
    (pc = "unbound" /\ call = "probe") =>
        /\ ~dsi_r_registered
        /\ \A d \in Dsis : ~attached[d]
        /\ ~panel_added

====
